---- MODULE Spec2Model ----
(***************************************************************************)
(* Job-lifecycle client of the SlideGen frontend: the App component        *)
(* (src/unnamed/part_002) and its API helpers                              *)
(* (src/frontend/src/api/pptApi.js).                                       *)
(*                                                                         *)
(* The component state (useState / useRef), the interval timers created    *)
(* by setInterval and the fetch requests that are in flight are the state  *)
(* of the model.  Every handler is one action; an async function is one    *)
(* action per synchronous segment (the code between two awaits), because   *)
(* the JavaScript event loop runs each segment to completion.              *)
(***************************************************************************)
EXTENDS Integers, Sequences, FiniteSets, TLC

VARIABLES
    prompt,          \* useState('')      the textarea's text, a sequence of characters
    jobId,           \* useState(null)
    jobStatus,       \* useState(null)
    progress,        \* useState(0)      in percent (the code's fraction times 100)
    error,           \* useState(null)
    isSubmitting,    \* useState(false)
    report,          \* useState(null)
    pollingRef,      \* useRef(null): the handle of the interval stored by startPolling
    timers,          \* the live setInterval timers, each named by the id its callback polls
    pendingCreates,  \* POST /generate requests in flight
    statusInFlight,  \* GET /jobs/{id} requests in flight
    reportInFlight,  \* GET /jobs/{id}/report requests in flight
    remote,          \* the remote's record of each job, as of the last request it served
    created,         \* number of jobs the remote has created
    statusReqs,      \* per job: status requests issued so far
    reportReqs,      \* per job: report requests issued so far
    applied,         \* the status request whose snapshot was applied last: [id, seq]
    download,        \* the href of the link downloadPptx clicked in the step just taken, if any
    lastOp           \* the handler segment that ran last

vars == <<prompt, jobId, jobStatus, progress, error, isSubmitting, report,
          pollingRef, timers, pendingCreates, statusInFlight, reportInFlight,
          remote, created, statusReqs, reportReqs, applied, download, lastOp>>

(***************************************************************************)
(* Bounds of the model.                                                    *)
(***************************************************************************)
MaxJobs == 2        \* jobs the remote creates in one run
MaxPolls == 3       \* status requests issued in one run (the immediate ones included)

(***************************************************************************)
(* Values.                                                                 *)
(***************************************************************************)
Null == "null"                      \* JavaScript null / undefined / absent field

JobName(n) == "j" \o ToString(n)    \* job_id assigned by the remote: opaque, unique
AllJobs == {JobName(n) : n \in 1..MaxJobs}

\* The report body; only its job_id back-reference is modelled.  NoReport is null.
NoReport == [job_id |-> Null]
ReportOf(id) == [job_id |-> id]

\* Status strings: the six the client recognises and one it does not.
ProcessingStatuses == {"queued", "generating", "generating_json", "rendering"}
TerminalStatuses == {"done", "failed"}
UnknownStatus == "archiving"
Statuses == ProcessingStatuses \cup TerminalStatuses \cup {UnknownStatus}

\* The statuses the remote of the model reports: two of the processing ones,
\* the unrecognised one and the two final ones.
RemoteStatuses == {"queued", "generating", UnknownStatus, "done", "failed"}

(***************************************************************************)
(* Pure helpers.                                                           *)
(***************************************************************************)
IsSpace(c) == c \in {" ", "\t", "\n"}

RECURSIVE TrimStart(_)
TrimStart(s) == IF s # <<>> /\ IsSpace(Head(s)) THEN TrimStart(Tail(s)) ELSE s

RECURSIVE TrimEnd(_)
TrimEnd(s) ==
    IF s # <<>> /\ IsSpace(s[Len(s)]) THEN TrimEnd(SubSeq(s, 1, Len(s) - 1)) ELSE s

\* String.prototype.trim
Trim(s) == TrimEnd(TrimStart(s))

\* The texts the model types into the textarea.
Prompts == { <<>>, <<" ", "\n">>, <<" ", "p", " ">> }

\* An || that never falls back to its right operand.
StrOr_NoFallback(a, b) == a

\* a || b on strings: b when a is null, undefined or ''.
StrOr(a, b) == IF a = Null \/ a = "" THEN b ELSE a

\* a || b on numbers: b when a is 0.
NumOr(a, b) == IF a = 0 THEN b ELSE a

\* pptApi.js isProcessing
isProcessing(status) == status \in {"queued", "generating", "generating_json", "rendering"}

API_BASE_URL == "http://localhost:8000"

\* pptApi.js getDownloadUrl
getDownloadUrl(id) == API_BASE_URL \o "/jobs/" \o id \o "/download"

\* The message of the Error thrown on a non-2xx response:
\* errorData.detail || `HTTP Error: ${response.status}`
HttpErrorMessage(detail, code) == StrOr(detail, "HTTP Error: " \o ToString(code))

\* e.message of what a request can throw: fetch itself rejecting (connection
\* error), or a non-2xx response with or without an error detail.
ThrownMessages ==
    {"Failed to fetch"} \cup
    {HttpErrorMessage(d, c) : d \in {Null, "Job not found"}, c \in {500}}

ValidationMessage == "Please enter a description for your presentation."
GenericFailure == "Generation failed. Please try again."
CreateFailure(msg) == "Failed to create job: " \o msg
StatusFailure(msg) == "Failed to fetch status: " \o msg

(***************************************************************************)
(* The remote job API, as far as the client can observe it: a job's status *)
(* only moves forward, done and failed are final, progress never goes      *)
(* down, and the error field is set only with status failed.               *)
(***************************************************************************)
Rank(s) ==
    CASE s = "queued" -> 1
      [] s = "generating" -> 2
      [] s = "generating_json" -> 3
      [] s \in {"rendering", UnknownStatus} -> 4
      [] OTHER -> 5

\* The progress the remote reports on reaching a stage, in percent; a job that
\* fails, or enters a stage the client does not know, keeps the progress it had.
StageProgress(s, before) ==
    CASE s = "queued" -> 0
      [] s = "generating" -> 20
      [] s = "generating_json" -> 40
      [] s = "rendering" -> 70
      [] s = "done" -> 100
      [] OTHER -> before

ErrorDetails == {Null, "template not found"}

RemoteNext(r) ==
    IF r.status \in TerminalStatuses THEN {r}
    ELSE UNION { { [status |-> s, progress |-> StageProgress(s, r.progress), error |-> e] :
                     e \in IF s = "failed" THEN ErrorDetails ELSE {Null} } :
                 s \in {t \in RemoteStatuses : Rank(t) >= Rank(r.status)} }

\* The status a freshly created job is answered with: it waits in the queue.
CreateStatuses == {"queued"}

NoJob == [status |-> "queued", progress |-> 0, error |-> Null]

(***************************************************************************)
(* Derived values of the render (part_002 lines 121-124).                  *)
(***************************************************************************)
isJobActive == jobId # Null /\ isProcessing(jobStatus)
isComplete == jobStatus = "done"
isFailed == jobStatus = "failed"
canSubmit == ~isSubmitting /\ ~isJobActive /\ Len(Trim(prompt)) > 0

Init ==
    /\ prompt = <<>>
    /\ jobId = Null
    /\ jobStatus = Null
    /\ progress = 0
    /\ error = Null
    /\ isSubmitting = FALSE
    /\ report = NoReport
    /\ pollingRef = Null
    /\ timers = {}
    /\ pendingCreates = 0
    /\ statusInFlight = {}
    /\ reportInFlight = {}
    /\ remote = [j \in AllJobs |-> NoJob]
    /\ created = 0
    /\ statusReqs = [j \in AllJobs |-> 0]
    /\ reportReqs = [j \in AllJobs |-> 0]
    /\ applied = [id |-> Null, seq |-> 0]
    /\ download = Null
    /\ lastOp = "init"

\* A stopPolling that forgets clearInterval and only drops the handle.
TimersAfterStop_Leak == timers

\* A stopPolling without the `if`: it dereferences the handle, and throws
\* when the ref holds none.
StopPolling_Unguarded(ref, tms) ==
    [pollingRef |-> Null, timers |-> tms \ {ref}, threw |-> ref = Null]

(***************************************************************************)
(* stopPolling: clearInterval(pollingRef.current); pollingRef.current =    *)
(* null, when the ref holds a handle.  StopPolling is the function from    *)
(* the ref and the live timers before the call to those after it; the      *)
(* code has no statement that can throw.                                   *)
(***************************************************************************)
StopPolling(ref, tms) ==
    IF ref # Null
    THEN [pollingRef |-> Null, timers |-> tms \ {ref}, threw |-> FALSE]
    ELSE [pollingRef |-> ref, timers |-> tms, threw |-> FALSE]

TimersAfterStop == StopPolling(pollingRef, timers).timers

stopPolling ==
    /\ timers' = TimersAfterStop
    /\ pollingRef' = StopPolling(pollingRef, timers).pollingRef

\* getJobStatus(id) is called: the request leaves, and the remote answers it
\* with the job's record at that moment.
StatusRequest(id, snap) == [id |-> id, seq |-> statusReqs[id] + 1, snap |-> snap]

\* getRenderReport(id) is called.
ReportRequest(id) == [id |-> id, seq |-> reportReqs[id] + 1]

(***************************************************************************)
(* onChange of the textarea (disabled while a job is active).              *)
(***************************************************************************)
setPrompt(p) ==
    /\ ~isJobActive
    /\ p # prompt
    /\ prompt' = p
    /\ lastOp' = "setPrompt"
    /\ download' = Null
    /\ UNCHANGED <<applied, jobId, jobStatus, progress, error, isSubmitting, report,
                   pollingRef, timers, pendingCreates, statusInFlight,
                   reportInFlight, remote, created, statusReqs, reportReqs>>

\* handleSubmit without its stopPolling() call: the previous job's timer is
\* left running when the next job is submitted.
handleSubmit_NoStop ==
    /\ isSubmitting' = TRUE
    /\ error' = Null
    /\ jobId' = Null
    /\ jobStatus' = Null
    /\ progress' = 0
    /\ report' = NoReport
    /\ pendingCreates' = pendingCreates + 1
    /\ lastOp' = "submit"
    /\ download' = Null
    /\ UNCHANGED <<applied, prompt, pollingRef, timers, statusInFlight,
                   reportInFlight, remote, created, statusReqs, reportReqs>>

\* handleSubmit without the prompt validation: every submit clears the job and
\* sends the create request.
handleSubmit_Unvalidated ==
    /\ isSubmitting' = TRUE
    /\ error' = Null
    /\ jobId' = Null
    /\ jobStatus' = Null
    /\ progress' = 0
    /\ report' = NoReport
    /\ stopPolling
    /\ pendingCreates' = pendingCreates + 1
    /\ lastOp' = "submit"
    /\ download' = Null
    /\ UNCHANGED <<applied, prompt, statusInFlight, reportInFlight, remote,
                   created, statusReqs, reportReqs>>

(***************************************************************************)
(* handleSubmit, up to its await: the validation, or the clearing of the   *)
(* previous job and the POST /generate request.                            *)
(***************************************************************************)
handleSubmit ==
    IF Len(Trim(prompt)) = 0
    THEN /\ error' = ValidationMessage
         /\ lastOp' = "submitRejected"
         /\ download' = Null
         /\ UNCHANGED <<applied, prompt, jobId, jobStatus, progress, isSubmitting, report,
                        pollingRef, timers, pendingCreates, statusInFlight,
                        reportInFlight, remote, created, statusReqs, reportReqs>>
    ELSE /\ isSubmitting' = TRUE
         /\ error' = Null
         /\ jobId' = Null
         /\ jobStatus' = Null
         /\ progress' = 0
         /\ report' = NoReport
         /\ stopPolling
         /\ pendingCreates' = pendingCreates + 1
         /\ lastOp' = "submit"
         /\ download' = Null
         /\ UNCHANGED <<applied, prompt, statusInFlight, reportInFlight, remote,
                        created, statusReqs, reportReqs>>

\* Status requests issued so far, over all jobs.
RECURSIVE SumOver(_, _)
SumOver(f, S) ==
    IF S = {} THEN 0
    ELSE LET x == CHOOSE y \in S : TRUE IN f[x] + SumOver(f, S \ {x})

Polls == SumOver(statusReqs, AllJobs)

\* The model follows at most MaxJobs jobs and MaxPolls status requests: a create
\* request leaves only while the remote can still answer it with a new job and
\* the immediate poll of that job is still within the bound.
CanCreate ==
    /\ created + pendingCreates < MaxJobs
    /\ Polls + pendingCreates < MaxPolls

\* The submit button, disabled={!canSubmit}.
GenerateClick ==
    /\ canSubmit
    /\ CanCreate
    /\ handleSubmit

\* startPolling without its immediate pollJobStatus(id) call: the first status
\* request waits for the first tick of the interval.
handleSubmit_created_NoImmediatePoll(s, snap) ==
    LET id == JobName(created + 1) IN
    /\ pendingCreates > 0
    /\ created < MaxJobs
    /\ snap \in RemoteNext([status |-> s, progress |-> StageProgress(s, 0), error |-> Null])
    /\ pendingCreates' = pendingCreates - 1
    /\ created' = created + 1
    /\ jobId' = id
    /\ jobStatus' = s
    /\ remote' = [remote EXCEPT ![id] = snap]
    /\ pollingRef' = id
    /\ timers' = timers \cup {id}
    /\ isSubmitting' = FALSE
    /\ lastOp' = "created"
    /\ download' = Null
    /\ UNCHANGED <<applied, prompt, progress, error, report, statusInFlight,
                   statusReqs, reportInFlight, reportReqs>>

(***************************************************************************)
(* handleSubmit after the await, create succeeded: setJobId, setJobStatus, *)
(* startPolling(response.job_id) (the immediate pollJobStatus call and the *)
(* setInterval), and the finally block.                                    *)
(***************************************************************************)
handleSubmit_created(s, snap) ==
    LET id == JobName(created + 1) IN
    /\ pendingCreates > 0
    /\ created < MaxJobs
    /\ snap \in RemoteNext([status |-> s, progress |-> StageProgress(s, 0), error |-> Null])
    /\ pendingCreates' = pendingCreates - 1
    /\ created' = created + 1
    /\ jobId' = id
    /\ jobStatus' = s
    /\ statusInFlight' = statusInFlight \cup {StatusRequest(id, snap)}
    /\ statusReqs' = [statusReqs EXCEPT ![id] = @ + 1]
    /\ remote' = [remote EXCEPT ![id] = snap]
    /\ pollingRef' = id
    /\ timers' = timers \cup {id}
    /\ isSubmitting' = FALSE
    /\ lastOp' = "created"
    /\ download' = Null
    /\ UNCHANGED <<applied, prompt, progress, error, report, reportInFlight, reportReqs>>

\* handleSubmit after the await, create threw: the catch and the finally block.
handleSubmit_failed(msg) ==
    /\ pendingCreates > 0
    /\ pendingCreates' = pendingCreates - 1
    /\ error' = CreateFailure(msg)
    /\ isSubmitting' = FALSE
    /\ lastOp' = "createFailed"
    /\ download' = Null
    /\ UNCHANGED <<applied, prompt, jobId, jobStatus, progress, report, pollingRef, timers,
                   statusInFlight, reportInFlight, remote, created, statusReqs,
                   reportReqs>>

(***************************************************************************)
(* The interval callback of startPolling: pollJobStatus(id), up to its     *)
(* first await.                                                            *)
(***************************************************************************)
Tick(id, snap) ==
    /\ id \in timers
    /\ Polls + pendingCreates < MaxPolls
    /\ snap \in RemoteNext(remote[id])
    /\ statusInFlight' = statusInFlight \cup {StatusRequest(id, snap)}
    /\ statusReqs' = [statusReqs EXCEPT ![id] = @ + 1]
    /\ remote' = [remote EXCEPT ![id] = snap]
    /\ lastOp' = "tick"
    /\ download' = Null
    /\ UNCHANGED <<applied, prompt, jobId, jobStatus, progress, error, isSubmitting, report,
                   pollingRef, timers, pendingCreates, reportInFlight, created,
                   reportReqs>>

\* pollJobStatus whose failed branch records the error but leaves the timer
\* running.
pollJobStatus_status_FailedKeepsPolling(m) ==
    /\ m \in statusInFlight
    /\ statusInFlight' = statusInFlight \ {m}
    /\ jobStatus' = m.snap.status
    /\ progress' = NumOr(m.snap.progress, 0)
    /\ IF m.snap.status = "failed"
       THEN /\ error' = StrOr(m.snap.error, GenericFailure)
            /\ UNCHANGED <<pollingRef, timers, reportInFlight, reportReqs>>
       ELSE IF m.snap.status = "done"
       THEN /\ stopPolling
            /\ reportInFlight' = reportInFlight \cup {ReportRequest(m.id)}
            /\ reportReqs' = [reportReqs EXCEPT ![m.id] = @ + 1]
            /\ UNCHANGED error
       ELSE UNCHANGED <<error, pollingRef, timers, reportInFlight, reportReqs>>
    /\ applied' = [id |-> m.id, seq |-> m.seq]
    /\ lastOp' = "status"
    /\ download' = Null
    /\ UNCHANGED <<prompt, jobId, isSubmitting, report, pendingCreates, remote,
                   created, statusReqs>>

(***************************************************************************)
(* pollJobStatus after `await getJobStatus(id)` resolved with a snapshot,  *)
(* up to `await getRenderReport(id)`.                                      *)
(***************************************************************************)
pollJobStatus_status(m) ==
    /\ m \in statusInFlight
    /\ statusInFlight' = statusInFlight \ {m}
    /\ jobStatus' = m.snap.status
    /\ progress' = NumOr(m.snap.progress, 0)
    /\ IF m.snap.status = "failed"
       THEN /\ error' = StrOr(m.snap.error, GenericFailure)
            /\ stopPolling
            /\ UNCHANGED <<reportInFlight, reportReqs>>
       ELSE IF m.snap.status = "done"
       THEN /\ stopPolling
            /\ reportInFlight' = reportInFlight \cup {ReportRequest(m.id)}
            /\ reportReqs' = [reportReqs EXCEPT ![m.id] = @ + 1]
            /\ UNCHANGED error
       ELSE UNCHANGED <<error, pollingRef, timers, reportInFlight, reportReqs>>
    /\ applied' = [id |-> m.id, seq |-> m.seq]
    /\ lastOp' = "status"
    /\ download' = Null
    /\ UNCHANGED <<prompt, jobId, isSubmitting, report, pendingCreates, remote,
                   created, statusReqs>>

\* pollJobStatus, `await getJobStatus(id)` threw: the outer catch.
pollJobStatus_statusError(m, msg) ==
    /\ m \in statusInFlight
    /\ statusInFlight' = statusInFlight \ {m}
    /\ error' = StatusFailure(msg)
    /\ stopPolling
    /\ lastOp' = "statusError"
    /\ download' = Null
    /\ UNCHANGED <<applied, prompt, jobId, jobStatus, progress, isSubmitting, report,
                   pendingCreates, reportInFlight, remote, created, statusReqs,
                   reportReqs>>

\* pollJobStatus after `await getRenderReport(id)` resolved: setReport.
pollJobStatus_report(m) ==
    /\ m \in reportInFlight
    /\ reportInFlight' = reportInFlight \ {m}
    /\ report' = ReportOf(m.id)
    /\ lastOp' = "report"
    /\ download' = Null
    /\ UNCHANGED <<applied, prompt, jobId, jobStatus, progress, error, isSubmitting,
                   pollingRef, timers, pendingCreates, statusInFlight, remote,
                   created, statusReqs, reportReqs>>

\* The report fetch without its own try/catch: the failure reaches the outer
\* catch and is recorded like a failed status poll.
pollJobStatus_reportError_Surfaced(m) ==
    /\ m \in reportInFlight
    /\ reportInFlight' = reportInFlight \ {m}
    /\ error' = StatusFailure("Failed to fetch")
    /\ stopPolling
    /\ lastOp' = "reportError"
    /\ download' = Null
    /\ UNCHANGED <<applied, prompt, jobId, jobStatus, progress, isSubmitting, report,
                   pendingCreates, statusInFlight, remote, created, statusReqs,
                   reportReqs>>

\* pollJobStatus, `await getRenderReport(id)` threw: the inner catch (console.warn).
pollJobStatus_reportError(m) ==
    /\ m \in reportInFlight
    /\ reportInFlight' = reportInFlight \ {m}
    /\ lastOp' = "reportError"
    /\ download' = Null
    /\ UNCHANGED <<applied, prompt, jobId, jobStatus, progress, error, isSubmitting, report,
                   pollingRef, timers, pendingCreates, statusInFlight, remote,
                   created, statusReqs, reportReqs>>

(***************************************************************************)
(* handleReset.  Its button is rendered in the done view of a tracked job. *)
(***************************************************************************)
handleReset ==
    /\ prompt' = <<>>
    /\ jobId' = Null
    /\ jobStatus' = Null
    /\ progress' = 0
    /\ error' = Null
    /\ report' = NoReport
    /\ stopPolling
    /\ lastOp' = "reset"
    /\ download' = Null
    /\ UNCHANGED <<applied, isSubmitting, pendingCreates, statusInFlight, reportInFlight,
                   remote, created, statusReqs, reportReqs>>

ResetClick ==
    /\ jobId # Null
    /\ isComplete
    /\ handleReset

\* A download button rendered for every tracked job, whatever its status.
DownloadClick_AnyStatus ==
    /\ jobId # Null
    /\ download' = getDownloadUrl(jobId)
    /\ lastOp' = "download"
    /\ UNCHANGED <<applied, prompt, jobId, jobStatus, progress, error, isSubmitting,
                   report, pollingRef, timers, pendingCreates, statusInFlight,
                   reportInFlight, remote, created, statusReqs, reportReqs>>

(***************************************************************************)
(* handleDownload: downloadPptx(jobId) when a job is tracked; downloadPptx *)
(* creates a link whose href is getDownloadUrl(jobId), clicks it and       *)
(* removes it again.                                                       *)
(***************************************************************************)
handleDownload ==
    /\ download' = IF jobId # Null THEN getDownloadUrl(jobId) ELSE Null
    /\ lastOp' = "download"
    /\ UNCHANGED <<applied, prompt, jobId, jobStatus, progress, error, isSubmitting,
                   report, pollingRef, timers, pendingCreates, statusInFlight,
                   reportInFlight, remote, created, statusReqs, reportReqs>>

\* The download button, rendered in the done view of a tracked job.
DownloadClick ==
    /\ jobId # Null
    /\ isComplete
    /\ handleDownload

RemoteRecords ==
    [status : RemoteStatuses,
     progress : {StageProgress(s, 0) : s \in RemoteStatuses},
     error : ErrorDetails]

Next ==
    \/ \E p \in Prompts : setPrompt(p)
    \/ GenerateClick
    \/ \E s \in CreateStatuses, snap \in RemoteRecords : handleSubmit_created(s, snap)
    \/ \E msg \in ThrownMessages : handleSubmit_failed(msg)
    \/ \E id \in AllJobs, snap \in RemoteRecords : Tick(id, snap)
    \/ \E m \in statusInFlight : pollJobStatus_status(m)
    \/ \E m \in statusInFlight, msg \in ThrownMessages : pollJobStatus_statusError(m, msg)
    \/ \E m \in reportInFlight : pollJobStatus_report(m)
    \/ \E m \in reportInFlight : pollJobStatus_reportError(m)
    \/ ResetClick
    \/ DownloadClick

Spec == Init /\ [][Next]_vars

(***************************************************************************)
(* The form's submit event reaching handleSubmit while the prompt is blank *)
(* (the button is disabled then; requestSubmit, or a test firing the       *)
(* event, still runs the handler): the handler's own validation decides.   *)
(***************************************************************************)
FormSubmit ==
    /\ Len(Trim(prompt)) = 0
    /\ handleSubmit

NextForm == Next \/ FormSubmit

SpecForm == Init /\ [][NextForm]_vars

(***************************************************************************)
(* Vocabulary of the properties.  Every action sets lastOp to its own      *)
(* name, so lastOp' names the handler segment a step runs.                 *)
(***************************************************************************)
Step(op) == lastOp' = op /\ vars' # vars

\* The status / report request whose response a step consumes.
StatusResolved == statusInFlight \ statusInFlight'
ReportResolved == reportInFlight \ reportInFlight'

\* Job, status, progress, error and report all cleared.
Cleared ==
    /\ jobId = Null
    /\ jobStatus = Null
    /\ progress = 0
    /\ error = Null
    /\ report = NoReport

NoTimer == timers = {} /\ pollingRef = Null

(***************************************************************************)
(* C1.  After reset(), a response of a request that was in flight at the   *)
(* reset changes nothing: job, status, progress, error and report stay     *)
(* cleared until the next submit.  (In a cleared state with no submit      *)
(* under way, a step that consumes a status or report response leaves the  *)
(* state cleared.)                                                         *)
(***************************************************************************)
C1_ResetDiscardsInFlightResponses ==
    [][ ( /\ Cleared
          /\ ~isSubmitting
          /\ (StatusResolved # {} \/ ReportResolved # {}) )
        => Cleared' ]_vars

(***************************************************************************)
(* C2.  A status poll of the tracked job that fails at the transport level *)
(* marks the job failed, records a message derived from the transport      *)
(* error, and stops polling.                                               *)
(***************************************************************************)
C2_TransportFailureMarksJobFailed ==
    [][ ( /\ Step("statusError")
          /\ \E m \in StatusResolved : m.id = jobId )
        => ( /\ jobStatus' = "failed"
             /\ error' \in {StatusFailure(msg) : msg \in ThrownMessages}
             /\ timers' = {} /\ pollingRef' = Null ) ]_vars

(***************************************************************************)
(* C3.  At most one report fetch per entry into done: a report request is  *)
(* issued only by a step that moves the status from another value to done. *)
(***************************************************************************)
C3_OneReportFetchPerDone ==
    [][ reportReqs' # reportReqs => (jobStatus # "done" /\ jobStatus' = "done") ]_vars

(***************************************************************************)
(* C4.  Once the status is done or failed, the interval timer is cleared   *)
(* and no status request is issued until a new submit.                     *)
(***************************************************************************)
C4_TerminalStopsPolling ==
    /\ [](jobStatus \in TerminalStatuses => NoTimer)
    /\ [][ (jobStatus \in TerminalStatuses /\ ~isSubmitting)
           => statusReqs' = statusReqs ]_vars

\* A terminal snapshot of the tracked job has been applied while a second status
\* request of that job had been issued; no timer is left.
C4_Witness ==
    /\ lastOp = "status"
    /\ jobId # Null
    /\ applied.id = jobId
    /\ jobStatus \in TerminalStatuses
    /\ statusReqs[jobId] >= 2
    /\ NoTimer

(***************************************************************************)
(* C5.  A status response of a previously tracked job that resolves after  *)
(* a new job has been created does not touch the new job: status, progress *)
(* and error keep their values, the timer keeps running, and no report is  *)
(* requested or stored.                                                    *)
(***************************************************************************)
C5_OldJobResponseIgnored ==
    [][ ( /\ jobId # Null
          /\ Step("status")
          /\ \E m \in StatusResolved : m.id # jobId )
        => ( /\ jobStatus' = jobStatus
             /\ progress' = progress
             /\ error' = error
             /\ timers' = timers /\ pollingRef' = pollingRef
             /\ reportReqs' = reportReqs
             /\ report' = report ) ]_vars

(***************************************************************************)
(* C6.  Once a done or failed snapshot of the tracked job has been         *)
(* applied, the response of an earlier request of the same job never moves *)
(* the status back to a non-terminal value.                                *)
(***************************************************************************)
C6_StaleSnapshotKeepsTerminal ==
    [][ ( /\ jobStatus \in TerminalStatuses
          /\ applied.id = jobId
          /\ \E m \in StatusResolved : m.id = jobId /\ m.seq < applied.seq )
        => jobStatus' \in TerminalStatuses ]_vars

(***************************************************************************)
(* C7.  A failing report fetch leaves the status (done), the error and     *)
(* every other field of the job as they were; the report stays as it was   *)
(* (empty).                                                                *)
(***************************************************************************)
C7_ReportFailureSwallowed ==
    [][ Step("reportError")
        => ( /\ jobStatus' = jobStatus
             /\ error' = error
             /\ report' = report
             /\ jobId' = jobId
             /\ progress' = progress ) ]_vars

\* The report fetch of the tracked, done job has just failed: still done, no
\* error, no report.
C7_Witness ==
    /\ lastOp = "reportError"
    /\ jobId # Null
    /\ reportReqs[jobId] = 1
    /\ jobStatus = "done"
    /\ error = Null
    /\ report = NoReport

(***************************************************************************)
(* C8.  With an empty or whitespace-only prompt, submit only records the   *)
(* validation error: no request leaves, no timer starts, and jobId,        *)
(* status, progress and report keep their values.                          *)
(***************************************************************************)
C8_BlankPromptRejected ==
    [][ ( /\ Len(Trim(prompt)) = 0
          /\ (Step("submit") \/ Step("submitRejected")) )
        => ( /\ error' = ValidationMessage
             /\ pendingCreates' = pendingCreates
             /\ statusInFlight' = statusInFlight
             /\ reportInFlight' = reportInFlight
             /\ statusReqs' = statusReqs
             /\ reportReqs' = reportReqs
             /\ timers' = timers /\ pollingRef' = pollingRef
             /\ isSubmitting' = isSubmitting
             /\ jobId' = jobId
             /\ jobStatus' = jobStatus
             /\ progress' = progress
             /\ report' = report ) ]_vars

\* A whitespace-only prompt has just been rejected while a job was tracked and
\* polled: the job is untouched.
C8_Witness ==
    /\ lastOp = "submitRejected"
    /\ Len(prompt) > 0
    /\ error = ValidationMessage
    /\ jobId # Null
    /\ jobStatus # Null
    /\ timers # {}

(***************************************************************************)
(* C9.  When the create call fails the client ends in idle: no job id, no  *)
(* status, progress 0, no report, no timer, and the creation error         *)
(* recorded.                                                               *)
(***************************************************************************)
C9_CreateFailureEndsIdle ==
    [][ Step("createFailed")
        => ( /\ jobId' = Null
             /\ jobStatus' = Null
             /\ progress' = 0
             /\ report' = NoReport
             /\ timers' = {} /\ pollingRef' = Null
             /\ error' \in {CreateFailure(msg) : msg \in ThrownMessages} ) ]_vars

(***************************************************************************)
(* C10.  A stored report belongs to the tracked job: after a submit or a   *)
(* reset no report requested for an earlier job is the current report.     *)
(***************************************************************************)
C10_ReportBelongsToTrackedJob ==
    report # NoReport => report.job_id = jobId

(***************************************************************************)
(* C11.  At most one poll interval timer exists at any time: whatever      *)
(* submits, resets, ticks and responses came before, no earlier timer runs *)
(* alongside the one startPolling created, and the running timer is the    *)
(* one whose handle the ref holds.                                         *)
(***************************************************************************)
C11_AtMostOneTimer ==
    /\ Cardinality(timers) <= 1
    /\ timers \subseteq {pollingRef}

\* The second job's polling has just been started after the first job's timer
\* had been created: one timer runs, the second job's.
C11_Witness ==
    /\ lastOp = "created"
    /\ created = 2
    /\ statusReqs[JobName(1)] >= 1
    /\ timers = {JobName(2)}
    /\ pollingRef = JobName(2)

(***************************************************************************)
(* C12.  Submit is rejected whenever a job is active, i.e. a job is        *)
(* tracked and its status is neither done nor failed (a status string      *)
(* outside the six known ones included): no submit step leaves such a      *)
(* state.                                                                  *)
(***************************************************************************)
C12_SubmitRejectedWhileActive ==
    [][ (jobId # Null /\ jobStatus \notin TerminalStatuses) => ~Step("submit") ]_vars

(***************************************************************************)
(* C13.  Applying a snapshot with status failed sets the status to failed  *)
(* and the error to the snapshot's error field, or to the generic message  *)
(* when the field is absent; it stops polling and issues no report         *)
(* request; and no report request is ever issued for a job that failed.    *)
(***************************************************************************)
C13_FailedSnapshotApplied ==
    /\ [][ \A m \in StatusResolved :
              (Step("status") /\ m.snap.status = "failed")
              => ( /\ jobStatus' = "failed"
                   /\ error' = (IF m.snap.error = Null THEN GenericFailure
                                                       ELSE m.snap.error)
                   /\ NoTimer'
                   /\ reportReqs' = reportReqs
                   /\ reportInFlight' = reportInFlight ) ]_vars
    /\ [](\A j \in AllJobs : remote[j].status = "failed" => reportReqs[j] = 0)

\* The tracked job's timer had ticked, and a failed snapshot carrying an error
\* detail has just been applied: failed, the detail recorded, no timer, no
\* report request.
C13_Witness ==
    /\ lastOp = "status"
    /\ jobId # Null
    /\ applied.id = jobId
    /\ statusReqs[jobId] >= 2
    /\ jobStatus = "failed"
    /\ error = "template not found"
    /\ NoTimer
    /\ reportReqs[jobId] = 0

(***************************************************************************)
(* C14.  A download is triggered only when the status is done, and it      *)
(* targets <base>/jobs/<jobId>/download for the tracked jobId; in any      *)
(* other status no download happens.                                       *)
(***************************************************************************)
C14_DownloadOnlyWhenDone ==
    [][ (Step("download") \/ download' # Null)
        => ( /\ jobStatus = "done"
             /\ jobId # Null
             /\ download' = "http://localhost:8000/jobs/" \o jobId \o "/download" ) ]_vars

\* The first job is done and its file has just been requested.
C14_Witness ==
    /\ lastOp = "download"
    /\ jobId = JobName(1)
    /\ jobStatus = "done"
    /\ download = "http://localhost:8000/jobs/j1/download"

(***************************************************************************)
(* C15.  When the create call succeeds, the client tracks the returned job *)
(* id with the returned (non-terminal) status, a status request for that   *)
(* id leaves in the same step, before any tick, and the interval timer of  *)
(* that id is started; every tick of the timer issues one more status      *)
(* request for the tracked id.                                             *)
(***************************************************************************)
C15_SubmitStartsPolling ==
    /\ [][ Step("created")
           => ( /\ jobId' = JobName(created')
                /\ jobStatus' \in CreateStatuses
                /\ jobStatus' \notin TerminalStatuses
                /\ statusReqs[jobId'] = 0 /\ statusReqs'[jobId'] = 1
                /\ \E m \in statusInFlight' \ statusInFlight : m.id = jobId'
                /\ timers' = {jobId'} /\ pollingRef' = jobId' ) ]_vars
    /\ [][ Step("tick")
           => ( /\ Cardinality(statusInFlight' \ statusInFlight) = 1
                /\ \A m \in statusInFlight' \ statusInFlight : m.id = jobId
                /\ timers' = timers ) ]_vars

\* The first job was created queued, polled at once, and its timer has just
\* ticked for the first time.
C15_Witness ==
    /\ lastOp = "tick"
    /\ jobId = JobName(1)
    /\ jobStatus = "queued"
    /\ statusReqs[jobId] = 2
    /\ timers = {jobId}

(***************************************************************************)
(* C16.  The stored progress of a job never decreases while the job is     *)
(* active: a step that applies a snapshot of the tracked, active job and   *)
(* leaves it active does not lower the progress.  (The remote's progress   *)
(* is non-decreasing in the order the requests were issued.)               *)
(***************************************************************************)
C16_ProgressNeverDecreases ==
    [][ ( /\ isJobActive
          /\ Step("status")
          /\ \E m \in StatusResolved : m.id = jobId
          /\ isProcessing(jobStatus') )
        => progress' >= progress ]_vars

(***************************************************************************)
(* C17.  Whenever the status is failed, a non-empty error message is       *)
(* recorded.                                                               *)
(***************************************************************************)
C17_FailedHasMessage ==
    jobStatus = "failed" => (error # Null /\ error # "")

\* A failed snapshot without an error field has just been applied: the generic
\* message is recorded.
C17_Witness ==
    /\ lastOp = "status"
    /\ jobId # Null
    /\ jobStatus = "failed"
    /\ remote[jobId].error = Null
    /\ error = GenericFailure

(***************************************************************************)
(* C18.  stopPolling is idempotent: applied to its own result it changes   *)
(* nothing more; applied when the ref holds no handle it changes nothing;  *)
(* and it never fails.                                                     *)
(***************************************************************************)
C18_StopIdempotent ==
    LET once == StopPolling(pollingRef, timers)
        twice == StopPolling(once.pollingRef, once.timers)
    IN /\ ~once.threw /\ ~twice.threw
       /\ twice.pollingRef = once.pollingRef
       /\ twice.timers = once.timers
       /\ pollingRef = Null => (once.pollingRef = pollingRef /\ once.timers = timers)

\* Reset in the done view: the done snapshot had stopped the timer, and the
\* stopPolling of handleReset has just run a second time, with no handle held.
C18_Witness ==
    /\ lastOp = "reset"
    /\ created >= 1
    /\ statusReqs[JobName(1)] >= 1
    /\ NoTimer

(***************************************************************************)
(* C19.  The client never rests in an in-progress state with polling dead: *)
(* whenever a job is tracked and its status is queued, generating,         *)
(* generating_json or rendering, a poll timer is running or a status       *)
(* request is in flight.                                                   *)
(***************************************************************************)
C19_InProgressIsPolled ==
    (jobId # Null /\ isProcessing(jobStatus)) => (timers # {} \/ statusInFlight # {})

(***************************************************************************)
(* C20.  Whenever a poll timer is running, a job is tracked and the timer  *)
(* polls exactly the tracked jobId.                                        *)
(***************************************************************************)
C20_TimerPollsTrackedJob ==
    (timers # {} \/ pollingRef # Null)
    => (jobId # Null /\ timers = {jobId} /\ pollingRef = jobId)

\* The second job is tracked and its timer has just ticked.
C20_Witness ==
    /\ lastOp = "tick"
    /\ created = 2
    /\ jobId = JobName(2)
    /\ timers = {jobId}
====
